---- MODULE Spec2Model ----
(***************************************************************************)
(* A model of cdist/log.py: the extra severity levels, the verbosity      *)
(* table, the colouring formatter, the two-sink DefaultLog logger and its  *)
(* timestamping / parallel subclasses, and the four setup*Logging calls.   *)
(*                                                                         *)
(* Text is modelled as a sequence of tokens (strings); concatenation of    *)
(* text is concatenation of sequences.  A positional argument is a value   *)
(* that is either a string or a tuple of strings (see Str and Tup).        *)
(***************************************************************************)
EXTENDS Integers, Sequences, FiniteSets, TLC

VARIABLES
    loggerClass,   \* the class logging.setLoggerClass() last installed
    loggerDict,    \* logging.Logger.manager.loggerDict: name -> logger object
    verbosity_level, \* the _verbosity_level table: integer key -> level
    rootLevel,     \* logging.root.level
    rootHandlers,  \* number of handlers attached to logging.root
    USE_COLORS,    \* CdistFormatter.USE_COLORS
    last,          \* the logging call the most recent operation made, if it was one
    stdout,        \* lines the most recent operation wrote to sys.stdout
    stderr         \* lines the most recent operation wrote to sys.stderr

vars == <<loggerClass, loggerDict, verbosity_level, rootLevel, rootHandlers,
          USE_COLORS, last, stdout, stderr>>

----------------------------------------------------------------------------
(* Bounds of the model *)

\* timestamps datetime.now() may return are 1..MaxTs
MaxTs == 2
\* how many verbosity indices below _verbosity_level_off are tried
VerbosityBelow == 1
\* how many verbosity indices above 4 are tried
VerbosityAbove == 1
\* how many filters may be attached to one logger
MaxFilters == 1
\* how many handlers may be attached to the root logger
MaxRootHandlers == 1

----------------------------------------------------------------------------
(* Severity scale *)

NOTSET == 0
DEBUG == 10
INFO == 20
WARNING == 30
ERROR == 40
CRITICAL == 50

OffEqualsError == CRITICAL - 10

\* logging.OFF
OFF == CRITICAL + 10

VerboseAboveInfo == INFO + 5

\* logging.VERBOSE
VERBOSE == INFO - 5

\* logging.TRACE
TRACE == DEBUG - 5

\* a numeric level below TRACE, usable through Logger.log(level, ...)
SUBTRACE == TRACE - 4

verbosity_level_off == -2

\* logging.getLevelName(level) after the three addLevelName calls
getLevelName(level) ==
    CASE level = OFF -> "OFF"
      [] level = CRITICAL -> "CRITICAL"
      [] level = ERROR -> "ERROR"
      [] level = WARNING -> "WARNING"
      [] level = INFO -> "INFO"
      [] level = VERBOSE -> "VERBOSE"
      [] level = DEBUG -> "DEBUG"
      [] level = TRACE -> "TRACE"
      [] level = NOTSET -> "NOTSET"
      [] OTHER -> "Level " \o ToString(level)

\* the integer keys the _verbosity_level table is built with
VerbosityTable ==
    [i \in verbosity_level_off .. 4 |->
        CASE i = verbosity_level_off -> OFF
          [] i = -1 -> ERROR
          [] i = 0 -> WARNING
          [] i = 1 -> INFO
          [] i = 2 -> VERBOSE
          [] i = 3 -> DEBUG
          [] i = 4 -> TRACE]

\* _verbosity_level[None]
VerbosityLevelNone == WARNING

\* _verbosity_level[index] on a defaultdict: a missing key is inserted with
\* the default TRACE; the value read and the table the read leaves
VerbosityLevel(table, index) ==
    IF index \in DOMAIN table
    THEN [level |-> table[index], table |-> table]
    ELSE [level |-> TRACE,
          table |-> [k \in DOMAIN table \cup {index} |->
                        IF k = index THEN TRACE ELSE table[k]]]

VerbosityIndices == (verbosity_level_off - VerbosityBelow) .. (4 + VerbosityAbove)

----------------------------------------------------------------------------
(* Values and text *)

\* a positional argument that is a string
Str(s) == [tuple |-> FALSE, items |-> <<s>>]
\* a positional argument that is a tuple of strings
Tup(items) == [tuple |-> TRUE, items |-> items]

\* str(value) as tokens; a tuple prints as its repr
StrOf(value) ==
    IF value.tuple
    THEN <<"(">> \o value.items \o <<IF Len(value.items) = 1 THEN ",)" ELSE ")">>
    ELSE value.items

Placeholders(msg) == Cardinality({i \in 1..Len(msg) : msg[i] = "%s"})

RECURSIVE Substitute(_, _)
Substitute(msg, args) ==
    IF msg = <<>> THEN <<>>
    ELSE IF Head(msg) = "%s"
         THEN StrOf(Head(args)) \o Substitute(Tail(msg), Tail(args))
         ELSE <<Head(msg)>> \o Substitute(Tail(msg), args)

\* LogRecord.getMessage(): msg % args when args is not empty; the % operator
\* raises TypeError unless every argument meets a placeholder
getMessage(record) ==
    IF record.args = <<>> THEN [ok |-> TRUE, text |-> record.msg]
    ELSE IF Placeholders(record.msg) = Len(record.args)
         THEN [ok |-> TRUE, text |-> Substitute(record.msg, record.args)]
         ELSE [ok |-> FALSE, text |-> <<>>]

\* os.getpid() as text
Pid == "4242"

\* now.strftime("%Y%m%d%H%M%S.%f") for the t-th instant
Timestamp(t) == "20261102000000." \o ToString(t)

Timestamps == {Timestamp(t) : t \in 1..MaxTs}

----------------------------------------------------------------------------
(* CdistFormatter *)

RESET == "\\033[0m"

COLOR_MAP ==
    [n \in {"ERROR", "WARNING", "INFO", "VERBOSE", "DEBUG", "TRACE"} |->
        CASE n = "ERROR" -> "\\033[0;31m"
          [] n = "WARNING" -> "\\033[0;33m"
          [] n = "INFO" -> "\\033[0;94m"
          [] n = "VERBOSE" -> "\\033[0;34m"
          [] n = "DEBUG" -> "\\033[0;90m"
          [] n = "TRACE" -> "\\033[0;37m"]

DefaultFORMAT == <<"%(levelname)s", ": ", "%(name)s", ": ", "%(message)s">>

ParallelFORMAT ==
    <<"%(levelname)s", ": ", "[", "%(process)d", "]", ": ", "%(name)s", ": ",
      "%(message)s">>

RECURSIVE PercentFormat(_, _, _)
\* fmt % record.__dict__
PercentFormat(fmt, record, message) ==
    IF fmt = <<>> THEN <<>>
    ELSE LET f == Head(fmt)
             field == CASE f = "%(levelname)s" -> <<record.levelname>>
                        [] f = "%(name)s" -> <<record.name>>
                        [] f = "%(process)d" -> <<Pid>>
                        [] f = "%(message)s" -> message
                        [] OTHER -> <<f>>
         IN field \o PercentFormat(Tail(fmt), record, message)

CdistFormatIgnoresSwitch(fmt, record, useColors) ==
    LET m == getMessage(record)
        msg == PercentFormat(fmt, record, m.text)
        coloured == IF record.levelname \in DOMAIN COLOR_MAP
                    THEN <<COLOR_MAP[record.levelname]>> \o msg \o <<RESET>>
                    ELSE msg
    IN [ok |-> m.ok, line |-> coloured]

\* CdistFormatter.format(record) of a formatter built with fmt
CdistFormat(fmt, record, useColors) ==
    LET m == getMessage(record)
        msg == PercentFormat(fmt, record, m.text)
        coloured == IF useColors /\ record.levelname \in DOMAIN COLOR_MAP
                    THEN <<COLOR_MAP[record.levelname]>> \o msg \o <<RESET>>
                    ELSE msg
    IN [ok |-> m.ok, line |-> coloured]

----------------------------------------------------------------------------
(* Logger classes *)

Classes == {"DefaultLog", "TimestampingLog", "ParallelLog", "TimestampingParallelLog"}

FormatOfOwnClassOnly(cls) ==
    IF cls = "ParallelLog" THEN ParallelFORMAT ELSE DefaultFORMAT

\* the class attribute FORMAT as the method resolution order finds it
FormatOf(cls) ==
    IF cls \in {"ParallelLog", "TimestampingParallelLog"}
    THEN ParallelFORMAT ELSE DefaultFORMAT

\* whether the method resolution order of cls reaches TimestampingLog.filter
IsTimestamping(cls) == cls \in {"TimestampingLog", "TimestampingParallelLog"}

StdoutFilter(rec) == rec.levelno /= ERROR

StderrFilterThreshold(rec) == rec.levelno >= ERROR

StderrFilter(rec) == rec.levelno = ERROR

\* DefaultLog.__init__(name) run by an instance of class cls
NewLogger(cls, name) ==
    [cls |-> cls,
     name |-> name,
     level |-> NOTSET,
     filters |-> 0,
     propagate |-> FALSE,
     fmt |-> FormatOf(cls),
     handlers |-> <<[stream |-> "stdout", filter |-> "StdoutFilter", level |-> TRACE],
                    [stream |-> "stderr", filter |-> "StderrFilter", level |-> ERROR]>>]

NoRecord == [levelno |-> NOTSET, levelname |-> "", name |-> "", msg |-> <<>>, args |-> <<>>]

\* what is kept of a logging call: the method, the logger (name, class,
\* effective level and filters at the call), the caller's level and arguments,
\* whether isEnabledFor let it pass, whether filter() did, and the record
NoCall ==
    [op |-> "none", name |-> "", levelno |-> NOTSET, msg |-> <<>>, args |-> <<>>,
     gate |-> NOTSET,
     cls |-> "", filters |-> 0, colors |-> FALSE, enabled |-> FALSE,
     handled |-> FALSE, record |-> NoRecord]

\* Logger.getEffectiveLevel(): the logger's own level, or the root's when NOTSET
EffectiveLevel(logger) == IF logger.level /= NOTSET THEN logger.level ELSE rootLevel

\* Filterer.filter(record): every attached filter must accept; the filters the
\* model attaches reject every record
FiltererFilter(logger, record) == logger.filters = 0

LoggerFilterStampsTwice(logger, record, t) ==
    IF IsTimestamping(logger.cls)
    THEN [ok |-> TRUE,
          record |-> [record EXCEPT !.msg = <<"[", Timestamp(t), "] ", "[", Timestamp(t), "] ">>
                                             \o record.msg]]
    ELSE [ok |-> FiltererFilter(logger, record), record |-> record]

LoggerFilterReturnsSuper(logger, record, t) ==
    [ok |-> FiltererFilter(logger, record),
     record |-> IF IsTimestamping(logger.cls)
                THEN [record EXCEPT !.msg = <<"[", Timestamp(t), "] ">> \o record.msg]
                ELSE record]

\* the filter(record) method of the logger's class: the record it leaves and
\* the value it returns
LoggerFilter(logger, record, t) ==
    IF IsTimestamping(logger.cls)
    THEN [ok |-> TRUE,
          record |-> [record EXCEPT !.msg = <<"[", Timestamp(t), "] ">> \o record.msg]]
    ELSE [ok |-> FiltererFilter(logger, record), record |-> record]

HandlerFilter(handler, rec) ==
    IF handler.filter = "StdoutFilter" THEN StdoutFilter(rec) ELSE StderrFilter(rec)

\* Handler.handle(record) for one handler: the lines it adds to each stream.
\* A formatting error is reported on sys.stderr by Handler.handleError.
HandlerHandle(handler, fmt, rec, useColors) ==
    IF rec.levelno >= handler.level /\ HandlerFilter(handler, rec)
    THEN LET f == CdistFormat(fmt, rec, useColors)
         IN IF f.ok
            THEN [out |-> IF handler.stream = "stdout" THEN <<f.line>> ELSE <<>>,
                  err |-> IF handler.stream = "stderr" THEN <<f.line>> ELSE <<>>]
            ELSE [out |-> <<>>, err |-> << <<"--- Logging error ---">> >>]
    ELSE [out |-> <<>>, err |-> <<>>]

RECURSIVE CallHandlers(_, _, _, _)
\* Logger.callHandlers(record) over the logger's own handlers (propagate is False)
CallHandlers(handlers, fmt, rec, useColors) ==
    IF handlers = <<>> THEN [out |-> <<>>, err |-> <<>>]
    ELSE LET h == HandlerHandle(Head(handlers), fmt, rec, useColors)
             r == CallHandlers(Tail(handlers), fmt, rec, useColors)
         IN [out |-> h.out \o r.out, err |-> h.err \o r.err]

\* Logger.log(level, msg, *args) on a DefaultLog: isEnabledFor, makeRecord,
\* handle (filter, then callHandlers)
LogCall(op, logger, level, msg, args, t) ==
    LET gate == EffectiveLevel(logger)
        call == [NoCall EXCEPT !.op = op, !.name = logger.name, !.levelno = level,
                               !.msg = msg, !.args = args, !.gate = gate,
                               !.cls = logger.cls,
                               !.filters = logger.filters, !.colors = USE_COLORS]
    IN IF level < gate
       THEN [call |-> call, out |-> <<>>, err |-> <<>>]
       ELSE LET rec == [levelno |-> level, levelname |-> getLevelName(level),
                        name |-> logger.name, msg |-> msg, args |-> args]
                f == LoggerFilter(logger, rec, t)
                w == IF f.ok
                     THEN CallHandlers(logger.handlers, logger.fmt, f.record, USE_COLORS)
                     ELSE [out |-> <<>>, err |-> <<>>]
            IN [call |-> [call EXCEPT !.enabled = TRUE, !.handled = f.ok,
                                      !.record = f.record],
                out |-> w.out, err |-> w.err]

----------------------------------------------------------------------------
(* The base-class root logger *)

BASIC_FORMAT == <<"%(levelname)s", ":", "%(name)s", ":", "%(message)s">>

\* the tuple object (a, b, ...) built from the strings of args
TupleOf(args) == Tup([i \in 1..Len(args) |-> args[i].items[1]])

\* the positional arguments Logger.log receives from _verbose(self, msg, *args),
\* which passes the tuple args itself as the one positional argument
VerboseArgs(args) == <<TupleOf(args)>>

\* the positional arguments Logger.log receives from _trace(self, msg, *args)
TraceArgs(args) == args

\* Logger.log(level, msg, *args) on logging.root: its handlers write to
\* sys.stderr; with no handler logging.lastResort writes WARNING and above
RootLogCall(op, level, msg, callerArgs, args) ==
    LET call == [NoCall EXCEPT !.op = op, !.name = "root", !.levelno = level,
                               !.msg = msg, !.args = callerArgs, !.gate = rootLevel,
                               !.cls = "RootLogger",
                               !.colors = USE_COLORS]
    IN IF level < rootLevel
       THEN [call |-> call, out |-> <<>>, err |-> <<>>]
       ELSE LET rec == [levelno |-> level, levelname |-> getLevelName(level),
                        name |-> "root", msg |-> msg, args |-> args]
                m == getMessage(rec)
                line == IF ~m.ok THEN <<"--- Logging error ---">>
                        ELSE IF rootHandlers = 0 THEN m.text
                        ELSE PercentFormat(BASIC_FORMAT, rec, m.text)
                n == IF rootHandlers = 0
                     THEN (IF level >= WARNING THEN 1 ELSE 0)
                     ELSE rootHandlers
            IN [call |-> [call EXCEPT !.enabled = TRUE, !.handled = TRUE,
                                      !.record = rec],
                out |-> <<>>, err |-> [i \in 1..n |-> line]]

----------------------------------------------------------------------------
(* Inputs *)

Names == {"x", "y"}

\* a message without placeholder and no argument; a message with one
\* placeholder and one argument
CallInputs ==
    {[msg |-> <<"hi">>, args |-> <<>>],
     [msg |-> <<"v=", "%s">>, args |-> <<Str("a")>>]}

\* the levels of Logger.error, warning, info, debug and critical
StdMethodLevels == {ERROR, WARNING, INFO, DEBUG, CRITICAL}

\* levels passed to Logger.log directly
LogLevels == {SUBTRACE, OFF}

\* levels passed to Logger.setLevel directly
DirectLevels == {SUBTRACE, CRITICAL}

\* the verbosity indices the table is built with
TableIndices == DOMAIN VerbosityTable

----------------------------------------------------------------------------
(* State machine *)

Init ==
    /\ loggerClass = "DefaultLog"
    /\ loggerDict = <<>>
    /\ verbosity_level = VerbosityTable
    /\ rootLevel = WARNING
    /\ rootHandlers = 0
    /\ USE_COLORS = FALSE
    /\ last = NoCall
    /\ stdout = <<>>
    /\ stderr = <<>>

\* an operation that makes no logging call and writes nothing
Quiet == last' = NoCall /\ stdout' = <<>> /\ stderr' = <<>>

\* del logging.getLogger().handlers[:]; logging.setLoggerClass(cls)
SetupLogging(cls) ==
    /\ rootHandlers' = 0
    /\ loggerClass' = cls
    /\ Quiet
    /\ UNCHANGED <<loggerDict, verbosity_level, rootLevel, USE_COLORS>>

setupDefaultLogging == SetupLogging("DefaultLog")

setupTimestampingLogging == SetupLogging("TimestampingLog")

setupTimestampingParallelLogging == SetupLogging("TimestampingParallelLog")

setupParallelLogging == SetupLogging("ParallelLog")

LoggerForAlwaysNew(dict, cls, name) ==
    [n \in DOMAIN dict \cup {name} |->
        IF n = name THEN NewLogger(cls, name) ELSE dict[n]]

\* logging.getLogger(name): the registered logger, or a new instance of the
\* class installed at this moment
LoggerFor(dict, cls, name) ==
    IF name \in DOMAIN dict THEN dict
    ELSE [n \in DOMAIN dict \cup {name} |->
            IF n = name THEN NewLogger(cls, name) ELSE dict[n]]

getLogger(name) ==
    /\ loggerDict' = LoggerFor(loggerDict, loggerClass, name)
    /\ Quiet
    /\ UNCHANGED <<loggerClass, verbosity_level, rootLevel, rootHandlers, USE_COLORS>>

\* log.setLevel(_verbosity_level[index]) as the application does it
SetLevelForVerbosity(name, index) ==
    /\ name \in DOMAIN loggerDict
    /\ LET r == VerbosityLevel(verbosity_level, index)
       IN /\ loggerDict' = [loggerDict EXCEPT ![name].level = r.level]
          /\ verbosity_level' = r.table
    /\ Quiet
    /\ UNCHANGED <<loggerClass, rootLevel, rootHandlers, USE_COLORS>>

\* log.setLevel(level) with a level given as a number
SetLevel(name, level) ==
    /\ name \in DOMAIN loggerDict
    /\ loggerDict' = [loggerDict EXCEPT ![name].level = level]
    /\ Quiet
    /\ UNCHANGED <<loggerClass, verbosity_level, rootLevel, rootHandlers, USE_COLORS>>

\* CdistFormatter.USE_COLORS = b
SetUseColors(b) ==
    /\ USE_COLORS' = b
    /\ Quiet
    /\ UNCHANGED <<loggerClass, loggerDict, verbosity_level, rootLevel, rootHandlers>>

\* log.addFilter(f) with a filter f that rejects every record
AddFilter(name) ==
    /\ name \in DOMAIN loggerDict
    /\ loggerDict[name].filters < MaxFilters
    /\ loggerDict' = [loggerDict EXCEPT ![name].filters = @ + 1]
    /\ Quiet
    /\ UNCHANGED <<loggerClass, verbosity_level, rootLevel, rootHandlers, USE_COLORS>>

\* one logging call on the named logger
Call(op, name, level, in, t) ==
    /\ name \in DOMAIN loggerDict
    /\ LET r == LogCall(op, loggerDict[name], level, in.msg, in.args, t)
       IN /\ last' = r.call
          /\ stdout' = r.out
          /\ stderr' = r.err
    /\ UNCHANGED <<loggerClass, loggerDict, verbosity_level, rootLevel, rootHandlers,
                   USE_COLORS>>

\* Logger.error / warning / info / debug / critical, inherited
StdMethod(name, level, in, t) == Call("std", name, level, in, t)

\* DefaultLog.verbose
Verbose(name, in, t) == Call("DefaultLog.verbose", name, VERBOSE, in, t)

\* DefaultLog.trace
Trace(name, in, t) == Call("DefaultLog.trace", name, TRACE, in, t)

\* Logger.log(level, msg, *args)
Log(name, level, in, t) == Call("log", name, level, in, t)

\* logging.root.setLevel(_verbosity_level[index])
RootSetLevel(index) ==
    /\ LET r == VerbosityLevel(verbosity_level, index)
       IN /\ rootLevel' = r.level
          /\ verbosity_level' = r.table
    /\ Quiet
    /\ UNCHANGED <<loggerClass, loggerDict, rootHandlers, USE_COLORS>>

\* logging.root.addHandler(logging.StreamHandler())
RootAddHandler ==
    /\ rootHandlers < MaxRootHandlers
    /\ rootHandlers' = rootHandlers + 1
    /\ Quiet
    /\ UNCHANGED <<loggerClass, loggerDict, verbosity_level, rootLevel, USE_COLORS>>

RootCall(r) ==
    /\ last' = r.call
    /\ stdout' = r.out
    /\ stderr' = r.err
    /\ UNCHANGED <<loggerClass, loggerDict, verbosity_level, rootLevel, rootHandlers,
                   USE_COLORS>>

\* logging.root.verbose(msg, *args): the grafted _verbose
RootVerbose(in) ==
    RootCall(RootLogCall("Logger.verbose", VERBOSE, in.msg, in.args, VerboseArgs(in.args)))

\* logging.root.trace(msg, *args): the grafted _trace
RootTrace(in) ==
    RootCall(RootLogCall("Logger.trace", TRACE, in.msg, in.args, TraceArgs(in.args)))

\* the calls of one logger "x": configuration, level, colours, emission
Next ==
    \/ setupDefaultLogging
    \/ setupTimestampingLogging
    \/ setupTimestampingParallelLogging
    \/ setupParallelLogging
    \/ getLogger("x")
    \/ \E i \in TableIndices : SetLevelForVerbosity("x", i)
    \/ \E l \in DirectLevels : SetLevel("x", l)
    \/ \E b \in BOOLEAN : SetUseColors(b)
    \/ \E l \in StdMethodLevels, in \in CallInputs, t \in 1..MaxTs :
          StdMethod("x", l, in, t)
    \/ \E in \in CallInputs, t \in 1..MaxTs : Verbose("x", in, t)
    \/ \E in \in CallInputs, t \in 1..MaxTs : Trace("x", in, t)
    \/ \E l \in LogLevels, in \in CallInputs, t \in 1..MaxTs : Log("x", l, in, t)

Spec == Init /\ [][Next]_vars

\* the same with filters attached to the logger itself
NextFilters ==
    \/ Next
    \/ AddFilter("x")

SpecFilters == Init /\ [][NextFilters]_vars

\* several named loggers requested between configuration calls
NextRegistry ==
    \/ setupDefaultLogging
    \/ setupTimestampingLogging
    \/ setupTimestampingParallelLogging
    \/ setupParallelLogging
    \/ \E n \in Names : getLogger(n)
    \/ \E n \in Names, i \in TableIndices : SetLevelForVerbosity(n, i)
    \/ \E n \in Names, in \in CallInputs, t \in 1..MaxTs : StdMethod(n, ERROR, in, t)
    \/ \E n \in Names, in \in CallInputs, t \in 1..MaxTs : Trace(n, in, t)

SpecRegistry == Init /\ [][NextRegistry]_vars

\* verbosity indices inside and outside the table applied to the loggers
NextLookup ==
    \/ \E n \in Names : getLogger(n)
    \/ \E n \in Names, i \in VerbosityIndices : SetLevelForVerbosity(n, i)
    \/ \E n \in Names, in \in CallInputs, t \in 1..MaxTs : Verbose(n, in, t)

SpecLookup == Init /\ [][NextLookup]_vars

\* the base-class root logger next to a DefaultLog
NextRoot ==
    \/ setupDefaultLogging
    \/ setupTimestampingLogging
    \/ getLogger("x")
    \/ \E i \in TableIndices : SetLevelForVerbosity("x", i)
    \/ \E i \in TableIndices : RootSetLevel(i)
    \/ RootAddHandler
    \/ \E in \in CallInputs : RootVerbose(in)
    \/ \E in \in CallInputs : RootTrace(in)
    \/ \E in \in CallInputs, t \in 1..MaxTs : Verbose("x", in, t)
    \/ \E in \in CallInputs, t \in 1..MaxTs : Trace("x", in, t)

SpecRoot == Init /\ [][NextRoot]_vars

----------------------------------------------------------------------------
(* Vocabulary of the properties *)

\* the levels of the six leveled methods
SixLevels == {ERROR, WARNING, INFO, VERBOSE, DEBUG, TRACE}

\* the scale from least to most permissive
Permissiveness == <<OFF, ERROR, WARNING, INFO, VERBOSE, DEBUG, TRACE>>

OnScale(level) == \E i \in 1..Len(Permissiveness) : Permissiveness[i] = level

Rank(level) == CHOOSE i \in 1..Len(Permissiveness) : Permissiveness[i] = level

\* the last operation was a call on a logger of one of the four variants
VariantCall == last.op /= "none" /\ last.cls \in Classes

\* a call of error, warning, info, verbose, debug or trace
SixMethodCall ==
    /\ VariantCall
    /\ last.op \in {"std", "DefaultLog.verbose", "DefaultLog.trace"}
    /\ last.levelno \in SixLevels

TimestampingVariants == {"TimestampingLog", "TimestampingParallelLog"}

ProcessTaggedVariants == {"ParallelLog", "TimestampingParallelLog"}

Lines == stdout \o stderr

NothingWritten == stdout = <<>> /\ stderr = <<>>

\* the caller's message with its arguments substituted
CallerText == getMessage([msg |-> last.msg, args |-> last.args]).text

TimestampCount(text) == Cardinality({i \in 1..Len(text) : text[i] \in Timestamps})

Escapes == {RESET} \cup {COLOR_MAP[n] : n \in DOMAIN COLOR_MAP}

NoEscape(text) == \A i \in 1..Len(text) : text[i] \notin Escapes

----------------------------------------------------------------------------
(* Properties *)

\* C1: a record that passed the level gate with a level at or above TRACE is
\* written to sys.stderr exactly when its level is ERROR and to sys.stdout
\* exactly when it is not: one stream, never both, never neither; CRITICAL goes
\* to sys.stdout.
InvSinkRouting ==
    (VariantCall /\ last.enabled /\ last.levelno >= TRACE) =>
        /\ (stderr /= <<>>) <=> (last.levelno = ERROR)
        /\ (stdout /= <<>>) <=> (last.levelno /= ERROR)
        /\ Len(stdout) + Len(stderr) = 1

WitSinkRouting ==
    /\ VariantCall /\ last.enabled /\ last.levelno = CRITICAL
    /\ Len(stdout) = 1 /\ stderr = <<>>

\* C2: a logger whose effective level is L emits a record of level X, X one
\* of the six method levels, if and only if X is not more permissive than L on
\* the scale ERROR < WARNING < INFO < VERBOSE < DEBUG < TRACE.
InvLevelGate ==
    (SixMethodCall /\ OnScale(last.gate)) =>
        ((~NothingWritten) <=> (Rank(last.levelno) <= Rank(last.gate)))

WitLevelGate ==
    /\ SixMethodCall /\ last.gate = VERBOSE
    /\ last.levelno = DEBUG /\ NothingWritten

\* C3: verbosity index -2 resolves to OFF, and no call of the six methods on a
\* logger whose level is OFF writes anything, ERROR included.
InvOffSilent ==
    /\ getLevelName(VerbosityLevel(verbosity_level, verbosity_level_off).level) = "OFF"
    /\ (SixMethodCall
         /\ last.gate = VerbosityLevel(verbosity_level, verbosity_level_off).level)
        => NothingWritten

WitOffSilent ==
    /\ SixMethodCall /\ last.levelno = ERROR /\ last.name \in DOMAIN loggerDict
    /\ loggerDict[last.name].level = OFF /\ last.gate = OFF /\ NothingWritten

\* C4: the verbosity table is total and monotonic: every index resolved so far
\* has a level of the scale, and of two indices the smaller one never has the
\* more permissive level.
InvVerbosityMonotonic ==
    /\ \A i \in DOMAIN verbosity_level : OnScale(verbosity_level[i])
    /\ \A i, j \in DOMAIN verbosity_level :
          i < j => Rank(verbosity_level[i]) <= Rank(verbosity_level[j])

\* C5: no step changes the class, the format template or the two sinks of a
\* logger that exists, and a logger a step constructs has the class installed
\* when the step is taken.
ActVariantFixedAtConstruction ==
    [][/\ \A n \in DOMAIN loggerDict :
            /\ n \in DOMAIN loggerDict'
            /\ loggerDict'[n].cls = loggerDict[n].cls
            /\ loggerDict'[n].fmt = loggerDict[n].fmt
            /\ loggerDict'[n].handlers = loggerDict[n].handlers
       /\ \A n \in DOMAIN loggerDict' \ DOMAIN loggerDict :
            /\ loggerDict'[n].cls = loggerClass
            /\ (loggerDict'[n].fmt = ParallelFORMAT)
                  <=> (loggerClass \in ProcessTaggedVariants)]_vars

WitVariantFixedAtConstruction ==
    /\ DOMAIN loggerDict = {"x", "y"}
    /\ loggerDict["x"].cls = "DefaultLog"
    /\ loggerDict["y"].cls = "TimestampingParallelLog"
    /\ loggerClass = "ParallelLog"
    /\ last.name = "x" /\ last.cls = "DefaultLog"

\* the lines the four variants render, with the timestamp at the start of the
\* line or at the start of the message
LinesWith(stampAtStart) ==
    LET level == <<last.record.levelname, ": ">>
        pid == IF last.cls \in ProcessTaggedVariants THEN <<"[", Pid, "]", ": ">> ELSE <<>>
        name == <<last.name, ": ">>
    IN IF last.cls \in TimestampingVariants
       THEN {IF stampAtStart
             THEN <<"[", ts, "] ">> \o level \o pid \o name \o CallerText
             ELSE level \o pid \o name \o <<"[", ts, "] ">> \o CallerText
               : ts \in Timestamps}
       ELSE {level \o pid \o name \o CallerText}

\* C6 as stated: the timestamping variants render `[timestamp] LEVEL: ...`,
\* the timestamp at the start of the line.
InvLineTemplatesAsStated ==
    (VariantCall /\ ~last.colors) =>
        \A i \in 1..Len(Lines) : Lines[i] \in LinesWith(TRUE)

\* C6 as amended: the timestamping variants render the timestamp at the start of
\* the message, `LEVEL: [pid]: name: [timestamp] message` and
\* `LEVEL: name: [timestamp] message`; the other two render
\* `LEVEL: name: message` and `LEVEL: [pid]: name: message`.
InvLineTemplates ==
    (VariantCall /\ ~last.colors) =>
        \A i \in 1..Len(Lines) : Lines[i] \in LinesWith(FALSE)

WitLineTemplates ==
    /\ VariantCall /\ ~last.colors /\ last.cls = "TimestampingParallelLog"
    /\ Len(stdout) = 1
    /\ stdout[1] = <<"INFO", ": ", "[", Pid, "]", ": ", "x", ": ", "[", Timestamp(1), "] ",
                     "v=", "a">>

\* C7: with the colour switch off no line holds an escape sequence; with it on a
\* line of a level of the colour table is that level's colour code, the line,
\* the reset code, and a line of any other level holds no escape sequence.
InvColours ==
    VariantCall =>
        \A i \in 1..Len(Lines) :
            LET line == Lines[i]
                name == last.record.levelname
            IN IF last.colors /\ name \in {"ERROR", "WARNING", "INFO", "VERBOSE", "DEBUG", "TRACE"}
               THEN /\ Len(line) >= 2
                    /\ line[1] = COLOR_MAP[name]
                    /\ line[Len(line)] = RESET
                    /\ SubSeq(line, 2, Len(line) - 1) \in LinesWith(FALSE)
               ELSE NoEscape(line)

WitColours ==
    /\ VariantCall /\ last.colors /\ last.levelno = ERROR
    /\ Len(stderr) = 1 /\ stderr[1][1] = "\\033[0;31m"

\* C8: on a timestamping logger a record that passes the level gate gets the
\* timestamp prefix exactly once, every line written carries exactly one, and
\* a call the level gate drops makes no record and no line.
InvStampedOnce ==
    (VariantCall /\ last.cls \in TimestampingVariants) =>
        IF last.enabled
        THEN /\ \E ts \in Timestamps : last.record.msg = <<"[", ts, "] ">> \o last.msg
             /\ TimestampCount(last.record.msg) = 1
             /\ \A i \in 1..Len(Lines) : TimestampCount(Lines[i]) = 1
        ELSE last.record = NoRecord /\ NothingWritten

WitStampedOnce ==
    /\ VariantCall /\ last.cls \in TimestampingVariants
    /\ last.enabled /\ last.levelno = ERROR
    /\ Len(stderr) = 1 /\ TimestampCount(stderr[1]) = 1

\* C9: verbose and trace, on a base-class logger and on a DefaultLog, make a
\* record whose argument tuple is the caller's positional arguments.
InvArgsForwarded ==
    (/\ last.op \in {"Logger.verbose", "Logger.trace", "DefaultLog.verbose", "DefaultLog.trace"}
     /\ last.enabled)
        => last.record.args = last.args

\* C10: with a rejecting filter attached to the logger, a record that passed
\* the level gate is still handled on a timestamping logger (and written when
\* its level is at or above TRACE), and is suppressed on a plain or
\* process-tagged logger.
InvTimestampingIgnoresFilters ==
    (VariantCall /\ last.enabled /\ last.filters > 0) =>
        IF last.cls \in TimestampingVariants
        THEN last.handled /\ (last.levelno >= TRACE => ~NothingWritten)
        ELSE ~last.handled /\ NothingWritten

WitTimestampingIgnoresFilters ==
    /\ VariantCall /\ last.enabled /\ last.filters > 0
    /\ last.cls = "TimestampingLog" /\ Len(stdout) = 1

====
